---------------------------- MODULE Spec2Model ----------------------------
(***************************************************************************)
(* Client Session Controller of the FinGenius front-end.                   *)
(*                                                                         *)
(* web/app-improved.js (class FinGeniusApp, "improved" controller) and     *)
(* web/app.js (class FinGeniusApp, "base" controller) are modelled as      *)
(* event-driven state machines: one action per user action, socket event,  *)
(* inbound message handler and timer callback.  Variables of the base      *)
(* controller carry the prefix b_.                                         *)
(*                                                                         *)
(* Conventions                                                             *)
(*   - a string of the page (stock code, input value) is a sequence of     *)
(*     one-character strings;                                              *)
(*   - a progress percentage p is stored as the integer 12 * p (Pct(p)),   *)
(*     which keeps (completed / 6) * 100 and ((i + 0.5) / 6) * 70 exact;   *)
(*   - JavaScript null / undefined is an explicit value of the same shape  *)
(*     as the defined values (NullResults, NoTimer, NullStock).            *)
(***************************************************************************)
EXTENDS Integers, Sequences, FiniteSets, TLC

(***************************************************************************)
(* Bounds of the model                                                     *)
(***************************************************************************)
\* accepted startAnalysis calls per session
MaxRuns == 2
\* cancel and validate actions per session
MaxUserOps == 2
\* simulateAnalysis closures with a pending timer at one time
MaxSims == 1
\* tryLoadLatestReport callbacks pending at one time
MaxEnable == 1

(***************************************************************************)
(* Program constants                                                       *)
(***************************************************************************)
totalAgents == 6

agents == << "sentiment", "risk", "institutional_investor",
             "technical", "chip_analysis", "big_deal" >>

AgentIds == { agents[i] : i \in 1..totalAgents }

Max(a, b) == IF a >= b THEN a ELSE b
Min(a, b) == IF a <= b THEN a ELSE b

(***************************************************************************)
(* Strings                                                                 *)
(***************************************************************************)
Digit == { "0", "1", "2", "3", "4", "5", "6", "7", "8", "9" }
WhiteSpace == { " " }

RECURSIVE TrimStart(_)
TrimStart(s) ==
    IF s # << >> /\ Head(s) \in WhiteSpace THEN TrimStart(Tail(s)) ELSE s

RECURSIVE TrimEnd(_)
TrimEnd(s) ==
    IF s # << >> /\ s[Len(s)] \in WhiteSpace
    THEN TrimEnd(SubSeq(s, 1, Len(s) - 1))
    ELSE s

\* String.prototype.trim
Trim(s) == TrimEnd(TrimStart(s))

\* an unanchored test: some four consecutive digits
IsValidFormat_Unanchored(stockCode) ==
    \E i \in 1..(Len(stockCode) - 3) : \A k \in i..(i + 3) : stockCode[k] \in Digit

\* /^\d{4,6}$/.test(stockCode)
IsValidFormat(stockCode) ==
    /\ Len(stockCode) >= 4
    /\ Len(stockCode) <= 6
    /\ \A i \in 1..Len(stockCode) : stockCode[i] \in Digit

NullStock == << >>

S2330 == << "2", "3", "3", "0" >>
S2317 == << "2", "3", "1", "7" >>
S12 == << "1", "2" >>
SAB12 == << "A", "B", "1", "2" >>
S1234567 == << "1", "2", "3", "4", "5", "6", "7" >>
SPadded == << " ", "2", "3", "3", "0", " " >>
SBlank == << " " >>

\* values of the stock-code input field tried by the user
Inputs == { << >>, SBlank, S12, SAB12, S1234567, S2330, SPadded }

\* what the field holds when the validate button is clicked: Inputs, a second
\* code of the built-in table and a well-formed code outside it
ValidateInputs == Inputs \cup { S2317, << "1", "2", "3", "4" >> }

(***************************************************************************)
(* Values                                                                  *)
(***************************************************************************)
\* a percentage in the unit of the progress value (twelfths of a percent)
Pct(p) == 12 * p

Absent == "absent"

\* final_decision labels of a battle_results message; Absent models a
\* message without the field (JSON.parse gives undefined)
Decisions == { "bullish" }
VoteCounts == { "V1" }
ResearchPayloads == { "R1" }

NoBattle == [ present |-> FALSE, final_decision |-> Absent, vote_count |-> Absent ]

BattleEntry(final_decision, vote_count) ==
    [ present |-> TRUE, final_decision |-> final_decision, vote_count |-> vote_count ]

\* this.analysisResults = null
NullResults == [ isNull |-> TRUE, research |-> Absent, battle |-> NoBattle ]

\* the object {} and the objects { research: r }
ResultsObject(research) == [ isNull |-> FALSE, research |-> research, battle |-> NoBattle ]

\* message.results of analysis_complete: {} or { research: r }
ResultPayloads ==
    { ResultsObject(Absent) } \cup { ResultsObject(r) : r \in ResearchPayloads }

\* Object.keys(results).length > 0, guarded by results being non-null
HasKeys(results) ==
    /\ ~results.isNull
    /\ (results.research # Absent \/ results.battle.present)

NoTimer == 0

NoCard == [ active |-> FALSE, completed |-> FALSE ]

NoSim == [ stage |-> "none", idx |-> 0, gen |-> 0 ]

\* no error toast shown so far
NoToast == "none"

\* the text shown for an error message without a message field
DefaultError == "default"

\* message texts of inbound error messages
ErrorTexts == { "E1" }

\* research[key] by shape; texts by their length in characters, 0 for a field
\* that is not there. len is the length of a string payload and the length of
\* JSON.stringify(payload, null, 2) of an object or array payload.
Payload(kind, len, agent_output, raw_output, tool_data, nullItems) ==
    [ kind |-> kind, len |-> len, agent_output |-> agent_output,
      raw_output |-> raw_output, tool_data |-> tool_data, nullItems |-> nullItems ]

\* undefined, null or ''
Missing == Payload("missing", 0, 0, 0, 0, FALSE)

\* a plain text without tool transcript markers
Text(len) == Payload("string", len, 0, 0, 0, FALSE)

\* an object with the given agent_output, raw_output and tool_data texts
Object(len, agent_output, raw_output, tool_data) ==
    Payload("object", len, agent_output, raw_output, tool_data, FALSE)

\* an array, of null items or of records
Array(len, nullItems) == Payload("array", len, 0, 0, 0, nullItems)

\* a number or true
Primitive == Payload("number", 0, 0, 0, 0, FALSE)

\* what an agent panel holds: nothing, the mock text, a notice, or a text
\* taken from a part of the payload
Panel(kind, from) == [ kind |-> kind, from |-> from ]

NoPanel == Panel("none", "none")

NothingRendered ==
    [ kind |-> "none", research |-> Absent, battle |-> NoBattle,
      panels |-> [ a \in AgentIds |-> NoPanel ], charts |-> FALSE ]

\* #stockInfo: what is shown, the code it is labelled with, the stock the name is of
EmptyInfo == [ kind |-> "empty", code |-> NullStock, name |-> NullStock ]

ErrorInfo == [ kind |-> "error", code |-> NullStock, name |-> NullStock ]

SuccessInfo == [ kind |-> "success", code |-> NullStock, name |-> NullStock ]

StockInfo(code, name) == [ kind |-> "stock", code |-> code, name |-> name ]

\* the canned battle result of loadMockResults
MockBattle == BattleEntry("bullish", "mock")

OutMsg(type, stock_code) == [ type |-> type, stock_code |-> stock_code ]

\* this.apiConfig as the constructor leaves it, and the configurations the
\* settings dialog can hold (provider and key; the key may be left empty)
DefaultConfig == [ provider |-> "deepseek", apiKey |-> "" ]

ApiConfigs == [ provider : { "deepseek", "gemini" }, apiKey : { "", "key" } ]

\* the configure_api message of sendApiConfigToBackend
ConfigMsg(config) == [ type |-> "configure_api", stock_code |-> NullStock, config |-> config ]

(***************************************************************************)
(* State                                                                   *)
(***************************************************************************)
VARIABLES
    script,                   \* the controller script the page has loaded
    stockCodeValue,           \* the text held by the #stockCode field
    agentPayloads,            \* the six agent entries of the research object the backend reports
    apiConfig,                \* this.apiConfig of the improved controller
    \* --- improved controller (web/app-improved.js) ---
    sock,                     \* the WebSocket object: readyState and pending close event
    websocket,                \* this.websocket: "ws" or "null"
    connectionStatus,
    currentStock,
    analysisResults,
    analysisCompleted,
    isBattleComplete,
    awaitingBattleCompletion,
    resultsDisplayed,
    analysisHasResults,
    pendingSuccessToast,
    reportCompleteTimeout,    \* this.reportCompleteTimeout: a timer id or NoTimer
    analyzeBtnDisabled,       \* #analyzeBtn.disabled
    progressCard,             \* #progressCard style.display
    resultCard,               \* #resultCard style.display
    progressBar,              \* #progressBar width, in twelfths of a percent
    progressPercent,          \* #progressPercent text, a whole percentage
    cardsExist,               \* #agentProgress holds the six agent cards
    agentCards,               \* classes active / completed of each agent card
    stockInfo,                \* #stockInfo content
    watchdogTimers,           \* pending 30 s timers of handlePhaseCompleted
    sendTimers,               \* pending 100 ms timers of startAnalysis (stock code each)
    sims,                     \* simulateAnalysis closures, one per run
    renderTimers,             \* pending 1 s timers of showAnalysisResults
    enableTimers,             \* pending 2 s timers of tryLoadLatestReport
    mockTimers,               \* pending 1 s timers of useMockValidation
    outbox,                   \* messages passed to websocket.send, in order
    rendered,                 \* what the last result rendering showed
    errorToast,               \* text of the last toast of an inbound error message
    \* --- observation of the improved controller ---
    run,                      \* number of resetProgress calls (DOM generation)
    nUserOps,                 \* user actions taken
    nComplete,                \* analysis_complete handled since the last reset (0, 1, many)
    nBattle,                  \* battle_results handled since the last reset (0, 1, many)
    lastComplete,             \* results of the last analysis_complete handled in the run
    lastBattle,               \* battle entry of the last battle_results handled in the run
    seenMalformed,            \* a battle_results without final_decision handled in the run
    showCount,                \* display effects of showAnalysisResults since the last reset
    cancelledRun,             \* the run that cancelAnalysis was last called in
    noticeCount,              \* degraded-mode notices since the watchdog was last armed afresh
    watchdogEpisode,          \* "none", "armed", "fired", "cancelled"
    armedRun,                 \* the run in which the watchdog was last armed
    \* --- base controller (web/app.js) ---
    b_sock,
    b_websocket,
    b_currentStock,
    b_progressCard,
    b_resultCard,
    b_progressBar,
    b_cardsExist,
    b_agentCards,
    b_stockInfo,
    b_sims,
    b_renderTimers,
    b_mockTimers,
    b_outbox,
    b_run

socketVars == << sock, websocket, connectionStatus >>

flagVars == << analysisCompleted, isBattleComplete, awaitingBattleCompletion,
               resultsDisplayed, analysisHasResults, pendingSuccessToast >>

domVars == << analyzeBtnDisabled, progressCard, resultCard, progressBar,
              progressPercent, cardsExist, agentCards, stockInfo >>

timerVars == << reportCompleteTimeout, watchdogTimers, sendTimers, sims,
                renderTimers, enableTimers, mockTimers >>

runGhost == << run, nComplete, nBattle, lastComplete, lastBattle, seenMalformed,
              showCount, cancelledRun >>

wdGhost == << noticeCount, watchdogEpisode, armedRun >>

\* the improved controller and what is observed of it
improvedVars == << socketVars, currentStock, analysisResults, flagVars, domVars,
                   timerVars, outbox, rendered, errorToast, runGhost, wdGhost >>

b_socketVars == << b_sock, b_websocket >>

b_domVars == << b_progressCard, b_resultCard, b_progressBar, b_cardsExist,
                b_agentCards, b_stockInfo >>

b_timerVars == << b_sims, b_renderTimers, b_mockTimers >>

baseVars == << b_socketVars, b_currentStock, b_domVars, b_timerVars, b_outbox, b_run >>

vars == << script, stockCodeValue, agentPayloads, apiConfig, improvedVars, baseVars,
          nUserOps >>

\* a step of the page that runs web/app-improved.js; this.apiConfig is
\* assigned by saveApiConfig only
OnImproved ==
    /\ script = "app-improved.js"
    /\ UNCHANGED << script, stockCodeValue, agentPayloads, apiConfig, baseVars >>

\* a step of the page that runs web/app.js
OnBase ==
    /\ script = "app.js"
    /\ UNCHANGED << script, stockCodeValue, agentPayloads, apiConfig, improvedVars >>

(***************************************************************************)
(* Initial state: constructor and init() of both controllers               *)
(***************************************************************************)
InitImproved ==
    /\ apiConfig = DefaultConfig
    /\ sock = "CONNECTING"
    /\ websocket = "ws"
    /\ connectionStatus = "connecting"
    /\ currentStock = NullStock
    /\ analysisResults = NullResults
    /\ analysisCompleted = FALSE
    /\ isBattleComplete = FALSE
    /\ awaitingBattleCompletion = FALSE
    /\ resultsDisplayed = FALSE
    /\ analysisHasResults = FALSE
    /\ pendingSuccessToast = FALSE
    /\ reportCompleteTimeout = NoTimer
    /\ analyzeBtnDisabled = FALSE
    /\ progressCard = "none"
    /\ resultCard = "none"
    /\ progressBar = 0
    /\ progressPercent = 0
    /\ cardsExist = FALSE
    /\ agentCards = [ a \in AgentIds |-> NoCard ]
    /\ stockInfo = EmptyInfo
    /\ watchdogTimers = {}
    /\ sendTimers = << >>
    /\ sims = [ r \in 1..MaxRuns |-> NoSim ]
    /\ renderTimers = 0
    /\ enableTimers = 0
    /\ mockTimers = << >>
    /\ outbox = << >>
    /\ rendered = NothingRendered
    /\ errorToast = NoToast
    /\ run = 0
    /\ nUserOps = 0
    /\ nComplete = 0
    /\ nBattle = 0
    /\ lastComplete = NullResults
    /\ lastBattle = NoBattle
    /\ seenMalformed = FALSE
    /\ showCount = 0
    /\ cancelledRun = 0
    /\ noticeCount = 0
    /\ watchdogEpisode = "none"
    /\ armedRun = 0

InitBase ==
    /\ b_sock = "CONNECTING"
    /\ b_websocket = "ws"
    /\ b_currentStock = NullStock
    /\ b_progressCard = "none"
    /\ b_resultCard = "none"
    /\ b_progressBar = 0
    /\ b_cardsExist = FALSE
    /\ b_agentCards = [ i \in 1..totalAgents |-> NoCard ]
    /\ b_stockInfo = EmptyInfo
    /\ b_sims = [ r \in 1..MaxRuns |-> NoSim ]
    /\ b_renderTimers = 0
    /\ b_mockTimers = << >>
    /\ b_outbox = << >>
    /\ b_run = 0

\* a page loads one of the two scripts; both define class FinGeniusApp
Init ==
    /\ script \in { "app-improved.js", "app.js" }
    /\ stockCodeValue = << >>
    /\ agentPayloads = [ a \in AgentIds |-> Text(60) ]
    /\ InitImproved
    /\ InitBase

(***************************************************************************)
(* Improved controller: socket events (setupWebSocket)                     *)
(***************************************************************************)
\* this.websocket && this.websocket.readyState === WebSocket.OPEN
SocketIsOpen == websocket = "ws" /\ sock = "OPEN"

onopen ==
    /\ sock = "CONNECTING"
    /\ sock' = "OPEN"
    /\ connectionStatus' = "connected"
    /\ UNCHANGED << websocket, currentStock, analysisResults, flagVars, domVars,
                    timerVars, outbox, rendered, errorToast, runGhost, wdGhost, nUserOps >>

\* the error event; the close event of the same socket follows it
onerror ==
    /\ sock \in { "CONNECTING", "OPEN" }
    /\ sock' = "ERRORED"
    /\ connectionStatus' = "disconnected"
    /\ websocket' = "null"
    /\ UNCHANGED << currentStock, analysisResults, flagVars, domVars, timerVars, outbox,
                    rendered, errorToast, runGhost, wdGhost, nUserOps >>

onclose ==
    /\ sock \in { "OPEN", "ERRORED" }
    /\ sock' = "CLOSED"
    /\ connectionStatus' = "disconnected"
    /\ websocket' = "null"
    /\ UNCHANGED << currentStock, analysisResults, flagVars, domVars, timerVars, outbox,
                    rendered, errorToast, runGhost, wdGhost, nUserOps >>

(***************************************************************************)
(* Improved controller: progress bar                                       *)
(***************************************************************************)
\* Math.max(0, Math.min(percent, 100))
ClampedPercent(percent) == Max(0, Min(percent, Pct(100)))

\* Math.round of a non-negative value given in twelfths
RoundPercent(percent) == (percent + 6) \div 12

setProgress(percent) ==
    /\ progressBar' = ClampedPercent(percent)
    /\ progressPercent' = RoundPercent(ClampedPercent(percent))

keepProgress == UNCHANGED << progressBar, progressPercent >>

\* document.querySelectorAll('.agent-card.completed').length
completedAgents(cards) == Cardinality({ a \in AgentIds : cards[a].completed })

\* document.querySelectorAll('.agent-card.active').length
activeAgents(cards) == Cardinality({ a \in AgentIds : cards[a].active })

\* a progress value that also counts the cards still active
updateProgressBar_CountsActive(cards) ==
    ((completedAgents(cards) + activeAgents(cards)) * Pct(100)) \div totalAgents

\* the value updateProgressBar passes to setProgress: (completed / totalAgents) * 100
updateProgressBar(cards) == (completedAgents(cards) * Pct(100)) \div totalAgents

(***************************************************************************)
(* Improved controller: result display                                     *)
(***************************************************************************)
\* the fields showAnalysisResults reads and writes, as a record, so that a
\* handler can apply its own assignments before and after the call
Display ==
    [ resultsDisplayed |-> resultsDisplayed,
      awaitingBattleCompletion |-> awaitingBattleCompletion,
      pendingSuccessToast |-> pendingSuccessToast,
      progressBar |-> progressBar,
      progressPercent |-> progressPercent,
      renderTimers |-> renderTimers,
      showCount |-> showCount ]

WithProgress(d, percent) ==
    [ d EXCEPT !.progressBar = ClampedPercent(percent),
               !.progressPercent = RoundPercent(ClampedPercent(percent)) ]

showAnalysisResults(d) ==
    IF d.resultsDisplayed
    THEN d
    ELSE [ WithProgress(d, Pct(100)) EXCEPT
             !.resultsDisplayed = TRUE,
             !.awaitingBattleCompletion = FALSE,
             !.pendingSuccessToast = FALSE,
             !.renderTimers = @ + 1,
             !.showCount = @ + 1 ]

CommitDisplay(d) ==
    /\ resultsDisplayed' = d.resultsDisplayed
    /\ awaitingBattleCompletion' = d.awaitingBattleCompletion
    /\ pendingSuccessToast' = d.pendingSuccessToast
    /\ progressBar' = d.progressBar
    /\ progressPercent' = d.progressPercent
    /\ renderTimers' = d.renderTimers
    /\ showCount' = d.showCount

\* extractAICommentary(agentOutput, agentKey) for a truthy payload
extractAICommentary(agentOutput) ==
    LET isObject == agentOutput.kind \in { "object", "array" }
        toolOnly == /\ isObject
                    /\ agentOutput.agent_output = 0 /\ agentOutput.raw_output = 0
                    /\ agentOutput.tool_data > 0
        \* the text the string branch works on, and where it came from
        from == IF ~isObject THEN "text"
                ELSE IF agentOutput.agent_output > 0 THEN "agent_output"
                ELSE IF agentOutput.raw_output > 0 THEN "raw_output"
                ELSE "json"
        cleaned == IF agentOutput.kind = "string" THEN agentOutput.len
                   ELSE IF ~isObject THEN 0
                   ELSE IF agentOutput.agent_output > 0 THEN agentOutput.agent_output
                   ELSE IF agentOutput.raw_output > 0 THEN agentOutput.raw_output
                   ELSE agentOutput.len
        commentary == cleaned
    IN  IF toolOnly THEN Panel("notice", "tool_data")
        ELSE IF commentary < 50
        THEN IF isObject /\ agentOutput.raw_output >= 30
             THEN Panel("content", "raw_output")
             ELSE IF isObject /\ agentOutput.tool_data >= 30
             THEN Panel("content", "tool_data")
             ELSE Panel("placeholder", "none")
        ELSE Panel("content", from)

\* the loop of loadRealResults over agentMapping
RealPanels(research) ==
    [ a \in AgentIds |->
        IF research[a].kind = "missing"
        THEN Panel("placeholder", "none")
        ELSE extractAICommentary(research[a]) ]

\* extractChartDataFromReal(research) runs to its end: with an array of null
\* items as the technical payload, recentData.map reads a field of null
ChartDataExtracted(research) ==
    ~(research["technical"].kind = "array" /\ research["technical"].nullItems)

\* what loadRealResults / loadMockResults put on the page
RenderOf(results) ==
    IF ~results.isNull /\ results.research # Absent
    THEN [ kind |-> "real",
           research |-> results.research,
           battle |-> IF results.battle.present /\ results.battle.final_decision # Absent
                      THEN results.battle
                      ELSE NoBattle,
           panels |-> RealPanels(agentPayloads),
           charts |-> ChartDataExtracted(agentPayloads) ]
    ELSE [ kind |-> "mock",
           research |-> Absent,
           battle |-> IF ~results.isNull /\ results.battle.present
                      THEN results.battle
                      ELSE MockBattle,
           panels |-> [ a \in AgentIds |-> Panel("content", "mock") ],
           charts |-> TRUE ]

\* the 1 s timer callback of showAnalysisResults
RenderTimer ==
    /\ renderTimers > 0
    /\ renderTimers' = renderTimers - 1
    /\ progressCard' = "none"
    /\ resultCard' = "block"
    /\ rendered' = RenderOf(analysisResults)
    /\ UNCHANGED << socketVars, currentStock, analysisResults, flagVars,
                    analyzeBtnDisabled, progressBar, progressPercent, cardsExist,
                    agentCards, stockInfo, reportCompleteTimeout, watchdogTimers,
                    sendTimers, sims, enableTimers, mockTimers, outbox, errorToast,
                    runGhost, wdGhost, nUserOps >>

(***************************************************************************)
(* Improved controller: inbound messages (handleWebSocketMessage)          *)
(***************************************************************************)
handleValidationResult(message) ==
    /\ stockInfo' = IF message.valid /\ message.stock_info # NullStock
                    THEN StockInfo(currentStock, message.stock_info)
                    ELSE ErrorInfo
    /\ UNCHANGED << socketVars, currentStock, analysisResults, flagVars,
                    analyzeBtnDisabled, progressCard, resultCard, progressBar,
                    progressPercent, cardsExist, agentCards, timerVars, outbox,
                    rendered, errorToast, runGhost, wdGhost >>

handleAnalysisStarted ==
    /\ connectionStatus' = "analyzing"
    /\ UNCHANGED << sock, websocket, currentStock, analysisResults, flagVars, domVars,
                    timerVars, outbox, rendered, errorToast, runGhost, wdGhost >>

\* only progress text and a toast
handlePhaseStarted(message) ==
    /\ UNCHANGED << socketVars, currentStock, analysisResults, flagVars, domVars,
                    timerVars, outbox, rendered, errorToast, runGhost, wdGhost >>

\* the id setTimeout returns: one that names no pending timer and is not the
\* stale value of this.reportCompleteTimeout
FreshTimer ==
    CHOOSE t \in 1..(Cardinality(watchdogTimers) + 2) :
        /\ t \notin watchdogTimers
        /\ t # reportCompleteTimeout
        /\ \A u \in 1..(t - 1) : u \in watchdogTimers \/ u = reportCompleteTimeout

\* the pending watchdogs when the handle is overwritten without clearTimeout
ClearedWatchdog_NoClear == watchdogTimers

\* clearTimeout(this.reportCompleteTimeout), guarded by the handle being set
ClearedWatchdog ==
    IF reportCompleteTimeout # NoTimer
    THEN watchdogTimers \ { reportCompleteTimeout }
    ELSE watchdogTimers

handlePhaseCompleted(message) ==
    /\ IF message.phase = "report"
       THEN /\ watchdogTimers' = ClearedWatchdog \cup { FreshTimer }
            /\ reportCompleteTimeout' = FreshTimer
            /\ watchdogEpisode' = "armed"
            /\ armedRun' = run
            /\ noticeCount' = IF watchdogTimers = {} THEN 0 ELSE noticeCount
       ELSE UNCHANGED << reportCompleteTimeout, watchdogTimers, wdGhost >>
    /\ UNCHANGED << socketVars, currentStock, analysisResults, flagVars, domVars,
                    sendTimers, sims, renderTimers, enableTimers, mockTimers, outbox,
                    rendered, errorToast, runGhost >>

\* the card classes after an agent_progress message for one of the cards
CardsAfter(cards, agent, status) ==
    IF status = "started"
    THEN [ cards EXCEPT ![agent] = [ active |-> TRUE, completed |-> FALSE ] ]
    ELSE IF status = "completed"
    THEN [ cards EXCEPT ![agent] = [ active |-> FALSE, completed |-> TRUE ] ]
    ELSE cards

handleAgentProgress(message) ==
    /\ IF message.agent = "all" \/ message.agent \notin AgentIds \/ ~cardsExist
       THEN UNCHANGED << progressBar, progressPercent, agentCards >>
       ELSE /\ agentCards' = CardsAfter(agentCards, message.agent, message.status)
            /\ IF message.status = "completed"
               THEN setProgress(updateProgressBar(agentCards'))
               ELSE keepProgress
    /\ UNCHANGED << socketVars, currentStock, analysisResults, flagVars,
                    analyzeBtnDisabled, progressCard, resultCard, cardsExist, stockInfo,
                    timerVars, outbox, rendered, errorToast, runGhost, wdGhost >>

handleBattleStarted ==
    /\ setProgress(Pct(80))
    /\ UNCHANGED << socketVars, currentStock, analysisResults, flagVars,
                    analyzeBtnDisabled, progressCard, resultCard, cardsExist,
                    agentCards, stockInfo, timerVars, outbox, rendered, errorToast, runGhost,
                    wdGhost >>

\* if (!this.analysisResults) this.analysisResults = {}; then the battle entry
WithBattle(results, final_decision, vote_count) ==
    [ (IF results.isNull THEN ResultsObject(Absent) ELSE results)
        EXCEPT !.battle = BattleEntry(final_decision, vote_count) ]

\* a gate that does not look at analysisCompleted
battleShowGate_IgnoresCompletion(wasAwaitingBattle) ==
    wasAwaitingBattle \/ ~resultsDisplayed

\* the condition under which handleBattleResults calls showAnalysisResults
battleShowGate(wasAwaitingBattle) ==
    analysisCompleted /\ (wasAwaitingBattle \/ ~resultsDisplayed)

\* the condition under which handleAnalysisComplete calls showAnalysisResults
completeShowGate == isBattleComplete

\* final_decision.includes(...) throws a TypeError when final_decision is not a
\* string: the handler ends there, after the assignments above it
handleBattleResults(message) ==
    LET wasAwaitingBattle == awaitingBattleCompletion
        d0 == WithProgress([ Display EXCEPT !.awaitingBattleCompletion = FALSE ], Pct(95))
        d1 == IF message.final_decision = Absent
              THEN d0
              ELSE IF battleShowGate(wasAwaitingBattle)
              THEN showAnalysisResults(d0)
              ELSE d0
    IN  /\ isBattleComplete' = TRUE
        /\ analysisResults' =
               WithBattle(analysisResults, message.final_decision, message.vote_count)
        /\ CommitDisplay(d1)
        /\ nBattle' = Min(nBattle + 1, 2)
        /\ lastBattle' = BattleEntry(message.final_decision, message.vote_count)
        /\ seenMalformed' = (seenMalformed \/ message.final_decision = Absent)
        /\ UNCHANGED << socketVars, currentStock, analysisCompleted, analysisHasResults,
                        analyzeBtnDisabled, progressCard, resultCard, cardsExist,
                        agentCards, stockInfo, reportCompleteTimeout, watchdogTimers,
                        sendTimers, sims, enableTimers, mockTimers, outbox, rendered, errorToast,
                        run, cancelledRun, nComplete, lastComplete, wdGhost >>

handleAnalysisComplete(message) ==
    LET hasResults == HasKeys(message.results)
        d0 == IF completeShowGate
              THEN showAnalysisResults(Display)
              ELSE [ WithProgress(Display, Pct(90)) EXCEPT
                       !.awaitingBattleCompletion = TRUE,
                       !.pendingSuccessToast = TRUE ]
        d1 == IF ~hasResults \/ isBattleComplete
              THEN [ d0 EXCEPT !.pendingSuccessToast = FALSE ]
              ELSE d0
    IN  /\ watchdogTimers' = ClearedWatchdog
        /\ reportCompleteTimeout' = NoTimer
        /\ watchdogEpisode' = IF reportCompleteTimeout \in watchdogTimers
                              THEN "cancelled"
                              ELSE watchdogEpisode
        /\ analysisResults' = message.results
        /\ connectionStatus' = "connected"
        /\ analysisCompleted' = TRUE
        /\ analysisHasResults' = hasResults
        /\ CommitDisplay(d1)
        /\ analyzeBtnDisabled' = FALSE
        /\ nComplete' = Min(nComplete + 1, 2)
        /\ lastComplete' = message.results
        /\ UNCHANGED << sock, websocket, currentStock, isBattleComplete, progressCard,
                        resultCard, cardsExist, agentCards, stockInfo, sendTimers, sims,
                        enableTimers, mockTimers, outbox, rendered, errorToast, run,
                        cancelledRun, nBattle,
                        lastBattle, seenMalformed, noticeCount, armedRun >>

\* message.message || '發生錯誤'
ErrorText(message) == IF message.message # Absent THEN message.message ELSE DefaultError

\* an error handler that also drops the stored results
handleError_DropsResults(message) ==
    /\ errorToast' = ErrorText(message)
    /\ analyzeBtnDisabled' = FALSE
    /\ analysisResults' = NullResults
    /\ UNCHANGED << socketVars, currentStock, flagVars, progressCard,
                    resultCard, progressBar, progressPercent, cardsExist, agentCards,
                    stockInfo, timerVars, outbox, rendered, runGhost, wdGhost >>

\* case 'error': a toast of the message and enableAnalysisButton
handleError(message) ==
    /\ errorToast' = ErrorText(message)
    /\ analyzeBtnDisabled' = FALSE
    /\ UNCHANGED << socketVars, currentStock, analysisResults, flagVars, progressCard,
                    resultCard, progressBar, progressPercent, cardsExist, agentCards,
                    stockInfo, timerVars, outbox, rendered, runGhost, wdGhost >>

handleWebSocketMessage(message) ==
    CASE message.type = "validation_result" -> handleValidationResult(message)
      [] message.type = "analysis_started" -> handleAnalysisStarted
      [] message.type = "phase_started" -> handlePhaseStarted(message)
      [] message.type = "phase_completed" -> handlePhaseCompleted(message)
      [] message.type = "agent_progress" -> handleAgentProgress(message)
      [] message.type = "battle_started" -> handleBattleStarted
      [] message.type = "battle_results" -> handleBattleResults(message)
      [] message.type = "analysis_complete" -> handleAnalysisComplete(message)
      [] message.type = "error" -> handleError(message)

\* websocket.onmessage: a message is delivered only while the socket is open
onmessage(message) ==
    /\ sock = "OPEN"
    /\ UNCHANGED nUserOps
    /\ handleWebSocketMessage(message)

(***************************************************************************)
(* Improved controller: timers                                             *)
(***************************************************************************)
\* the 30 s callback of handlePhaseCompleted: the degraded-mode notice, then
\* tryLoadLatestReport, which schedules enableAnalysisButton 2 s later
WatchdogExpire(t) ==
    /\ t \in watchdogTimers
    /\ watchdogTimers' = watchdogTimers \ { t }
    /\ noticeCount' = noticeCount + 1
    /\ watchdogEpisode' = "fired"
    /\ UNCHANGED armedRun
    /\ enableTimers' = enableTimers + 1
    /\ UNCHANGED << socketVars, currentStock, analysisResults, flagVars, domVars,
                    reportCompleteTimeout, sendTimers, sims, renderTimers, mockTimers,
                    outbox, rendered, errorToast, runGhost, nUserOps >>

\* the 2 s callback of tryLoadLatestReport
EnableTimer ==
    /\ enableTimers > 0
    /\ enableTimers' = enableTimers - 1
    /\ analyzeBtnDisabled' = FALSE
    /\ UNCHANGED << socketVars, currentStock, analysisResults, flagVars, progressCard,
                    resultCard, progressBar, progressPercent, cardsExist, agentCards,
                    stockInfo, reportCompleteTimeout, watchdogTimers, sendTimers, sims,
                    renderTimers, mockTimers, outbox, rendered, errorToast, runGhost, wdGhost,
                    nUserOps >>

\* the 100 ms callback of startAnalysis: this.websocket.send(start_analysis);
\* with this.websocket null the call throws and nothing is sent
DeferredSend ==
    /\ sendTimers # << >>
    /\ sendTimers' = Tail(sendTimers)
    /\ outbox' = IF websocket = "ws"
                 THEN Append(outbox, OutMsg("start_analysis", Head(sendTimers)))
                 ELSE outbox
    /\ UNCHANGED << socketVars, currentStock, analysisResults, flagVars, domVars,
                    reportCompleteTimeout, watchdogTimers, sims, renderTimers,
                    enableTimers, mockTimers, rendered, errorToast, runGhost, wdGhost, nUserOps >>

\* a table that knows a single company
getMockStockInfo_OnlyFirst(stockCode) == IF stockCode = S2330 THEN stockCode ELSE NullStock

\* getMockStockInfo: the built-in table
mockStocks ==
    { S2330, S2317, << "2", "4", "5", "4" >>, << "3", "0", "0", "8" >>,
      << "2", "8", "8", "1" >>, << "2", "8", "8", "2" >> }

getMockStockInfo(stockCode) == IF stockCode \in mockStocks THEN stockCode ELSE NullStock

\* the 1 s callback of useMockValidation
MockValidationTimer ==
    /\ mockTimers # << >>
    /\ mockTimers' = Tail(mockTimers)
    /\ stockInfo' = IF getMockStockInfo(Head(mockTimers)) # NullStock
                    THEN StockInfo(Head(mockTimers), getMockStockInfo(Head(mockTimers)))
                    ELSE ErrorInfo
    /\ UNCHANGED << socketVars, currentStock, analysisResults, flagVars,
                    analyzeBtnDisabled, progressCard, resultCard, progressBar,
                    progressPercent, cardsExist, agentCards, reportCompleteTimeout,
                    watchdogTimers, sendTimers, sims, renderTimers, enableTimers,
                    outbox, rendered, errorToast, runGhost, wdGhost, nUserOps >>

(***************************************************************************)
(* Improved controller: simulated analysis                                 *)
(***************************************************************************)
\* ((currentIndex + 0.5) / agents.length) * 70
SimStartProgress(currentIndex) == ((2 * currentIndex + 1) * Pct(70)) \div (2 * totalAgents)

\* ((currentIndex + 1) / agents.length) * 70
SimDoneProgress(currentIndex) == ((currentIndex + 1) * Pct(70)) \div totalAgents

\* a processNextAgent that also starts the agent after the current one
SimActivate_TwoAtOnce(cards, currentIndex) ==
    [ a \in AgentIds |->
        IF a \in { agents[currentIndex + 1], agents[Min(currentIndex + 2, totalAgents)] }
        THEN [ cards[a] EXCEPT !.active = TRUE ]
        ELSE cards[a] ]

\* processNextAgent of a closure whose currentIndex is below agents.length: the
\* card is looked up in the current document
SimActivate(cards, currentIndex) ==
    [ cards EXCEPT ![agents[currentIndex + 1]].active = TRUE ]

\* the 2-4 s callback of processNextAgent for simulation r: it completes the
\* card element it captured (detached once resetProgress has rebuilt the
\* cards), then processNextAgent runs again
SimAgentDone(r) ==
    LET sim == sims[r]
        done == IF sim.gen = run
                THEN [ agentCards EXCEPT ![agents[sim.idx + 1]] =
                                             [ active |-> FALSE, completed |-> TRUE ] ]
                ELSE agentCards
        currentIndex == sim.idx + 1
    IN  /\ sim.stage = "agent"
        /\ IF currentIndex >= totalAgents
           THEN /\ agentCards' = done
                /\ setProgress(SimDoneProgress(sim.idx))
                /\ sims' = [ sims EXCEPT ![r] = [ stage |-> "toBattle",
                                                  idx |-> currentIndex, gen |-> sim.gen ] ]
           ELSE /\ agentCards' = SimActivate(done, currentIndex)
                /\ setProgress(SimStartProgress(currentIndex))
                /\ sims' = [ sims EXCEPT ![r] = [ stage |-> "agent",
                                                  idx |-> currentIndex, gen |-> run ] ]
        /\ UNCHANGED << socketVars, currentStock, analysisResults, flagVars,
                        analyzeBtnDisabled, progressCard, resultCard, cardsExist,
                        stockInfo, reportCompleteTimeout, watchdogTimers, sendTimers,
                        renderTimers, enableTimers, mockTimers, outbox, rendered, errorToast,
                        runGhost, wdGhost, nUserOps >>

\* the 1 s callback that calls simulateBattlePhase
SimBattleStart(r) ==
    /\ sims[r].stage = "toBattle"
    /\ setProgress(Pct(80))
    /\ sims' = [ sims EXCEPT ![r].stage = "battle" ]
    /\ UNCHANGED << socketVars, currentStock, analysisResults, flagVars,
                    analyzeBtnDisabled, progressCard, resultCard, cardsExist,
                    agentCards, stockInfo, reportCompleteTimeout, watchdogTimers,
                    sendTimers, renderTimers, enableTimers, mockTimers, outbox,
                    rendered, errorToast, runGhost, wdGhost, nUserOps >>

\* the 3 s callback of simulateBattlePhase
SimBattleReport(r) ==
    /\ sims[r].stage = "battle"
    /\ setProgress(Pct(90))
    /\ sims' = [ sims EXCEPT ![r].stage = "report" ]
    /\ UNCHANGED << socketVars, currentStock, analysisResults, flagVars,
                    analyzeBtnDisabled, progressCard, resultCard, cardsExist,
                    agentCards, stockInfo, reportCompleteTimeout, watchdogTimers,
                    sendTimers, renderTimers, enableTimers, mockTimers, outbox,
                    rendered, errorToast, runGhost, wdGhost, nUserOps >>

\* the inner 2 s callback of simulateBattlePhase
SimBattleDone(r) ==
    /\ sims[r].stage = "report"
    /\ isBattleComplete' = TRUE
    /\ analysisCompleted' = TRUE
    /\ CommitDisplay(showAnalysisResults(Display))
    /\ sims' = [ sims EXCEPT ![r] = NoSim ]
    /\ UNCHANGED << socketVars, currentStock, analysisResults, analysisHasResults,
                    analyzeBtnDisabled, progressCard, resultCard, cardsExist,
                    agentCards, stockInfo, reportCompleteTimeout, watchdogTimers,
                    sendTimers, enableTimers, mockTimers, outbox, rendered, errorToast, run,
                    cancelledRun,
                    nComplete, nBattle, lastComplete, lastBattle, seenMalformed,
                    wdGhost, nUserOps >>

(***************************************************************************)
(* Improved controller: user actions                                       *)
(***************************************************************************)
\* a gate that only refuses the empty code
startAccepts_NonEmptyOnly(stockCode) == stockCode # << >>

\* the two checks at the head of startAnalysis
startAccepts(stockCode) == stockCode # << >> /\ IsValidFormat(stockCode)

\* sendApiConfigToBackend: the outbox after the call
sendApiConfigToBackend_Default(config) ==
    IF SocketIsOpen THEN Append(outbox, ConfigMsg(DefaultConfig)) ELSE outbox

sendApiConfigToBackend(config) ==
    IF SocketIsOpen THEN Append(outbox, ConfigMsg(config)) ELSE outbox

\* saveApiConfig with the dialog holding config: an empty key is refused
saveApiConfig(config) ==
    /\ IF config.apiKey = ""
       THEN UNCHANGED << apiConfig, outbox >>
       ELSE /\ apiConfig' = config
            /\ outbox' = sendApiConfigToBackend(config)
    /\ UNCHANGED << socketVars, currentStock, analysisResults, flagVars, domVars,
                    timerVars, rendered, errorToast, runGhost, wdGhost >>

\* startAnalysis with the input field holding value
startAnalysis(value) ==
    LET stockCode == Trim(value)
        live == SocketIsOpen
    IN  IF ~startAccepts(stockCode)
        THEN /\ stockInfo' = ErrorInfo
             /\ UNCHANGED << socketVars, currentStock, analysisResults, flagVars,
                             analyzeBtnDisabled, progressCard, resultCard, progressBar,
                             progressPercent, cardsExist, agentCards, timerVars, outbox,
                             rendered, errorToast, runGhost, wdGhost >>
        ELSE /\ run < MaxRuns
             /\ currentStock' = stockCode
             /\ analyzeBtnDisabled' = TRUE
             /\ progressCard' = "block"
             /\ resultCard' = "none"
             \* resetProgress
             /\ analysisCompleted' = FALSE
             /\ isBattleComplete' = FALSE
             /\ awaitingBattleCompletion' = FALSE
             /\ resultsDisplayed' = FALSE
             /\ analysisHasResults' = FALSE
             /\ pendingSuccessToast' = FALSE
             /\ cardsExist' = TRUE
             /\ run' = run + 1
             /\ nComplete' = 0
             /\ nBattle' = 0
             /\ lastComplete' = NullResults
             /\ lastBattle' = NoBattle
             /\ seenMalformed' = FALSE
             /\ showCount' = 0
             /\ IF live
                THEN \* sendApiConfigToBackend, then the deferred start_analysis
                     /\ outbox' = sendApiConfigToBackend(apiConfig)
                     /\ sendTimers' = Append(sendTimers, stockCode)
                     /\ agentCards' = [ a \in AgentIds |-> NoCard ]
                     /\ setProgress(0)
                     /\ UNCHANGED sims
                ELSE \* simulateAnalysis: processNextAgent for currentIndex 0
                     /\ agentCards' = SimActivate([ a \in AgentIds |-> NoCard ], 0)
                     /\ setProgress(SimStartProgress(0))
                     /\ sims' = [ sims EXCEPT ![run + 1] =
                                      [ stage |-> "agent", idx |-> 0, gen |-> run + 1 ] ]
                     /\ UNCHANGED << sendTimers, outbox >>
             /\ UNCHANGED << socketVars, analysisResults, stockInfo,
                             reportCompleteTimeout, watchdogTimers, renderTimers,
                             enableTimers, mockTimers, rendered, errorToast, wdGhost,
                             cancelledRun >>

\* retryAnalysis: startAnalysis reads the input field again
retryAnalysis(value) ==
    /\ currentStock # NullStock
    /\ startAnalysis(value)

\* a cancel that resets the page only after the message could be sent
cancelAnalysis_ResetOnlyWhenSent ==
    /\ outbox' = IF SocketIsOpen
                 THEN Append(outbox, OutMsg("cancel_analysis", currentStock))
                 ELSE outbox
    /\ progressCard' = IF SocketIsOpen THEN "none" ELSE progressCard
    /\ connectionStatus' = "connected"
    /\ analyzeBtnDisabled' = IF SocketIsOpen THEN FALSE ELSE analyzeBtnDisabled
    /\ cancelledRun' = run
    /\ UNCHANGED << sock, websocket, currentStock, analysisResults, flagVars,
                    resultCard, progressBar, progressPercent, cardsExist, agentCards,
                    stockInfo, timerVars, rendered, errorToast, run, nComplete, nBattle,
                    lastComplete, lastBattle, seenMalformed, showCount, wdGhost >>

cancelAnalysis ==
    /\ outbox' = IF SocketIsOpen
                 THEN Append(outbox, OutMsg("cancel_analysis", currentStock))
                 ELSE outbox
    /\ progressCard' = "none"
    /\ connectionStatus' = "connected"
    /\ analyzeBtnDisabled' = FALSE
    /\ cancelledRun' = run
    /\ UNCHANGED << sock, websocket, currentStock, analysisResults, flagVars,
                    resultCard, progressBar, progressPercent, cardsExist, agentCards,
                    stockInfo, timerVars, rendered, errorToast, run, nComplete, nBattle,
                    lastComplete, lastBattle, seenMalformed, showCount, wdGhost >>

\* validateStockCode with the input field holding value
validateStockCode(value) ==
    LET stockCode == Trim(value)
    IN  /\ IF stockCode = << >>
           THEN /\ stockInfo' = ErrorInfo
                /\ UNCHANGED << currentStock, mockTimers, outbox >>
           ELSE /\ currentStock' = stockCode
                /\ stockInfo' = SuccessInfo
                /\ IF SocketIsOpen
                   THEN /\ outbox' = Append(outbox, OutMsg("validate_stock", stockCode))
                        /\ UNCHANGED mockTimers
                   ELSE /\ mockTimers' = Append(mockTimers, stockCode)
                        /\ UNCHANGED outbox
        /\ UNCHANGED << socketVars, analysisResults, flagVars, analyzeBtnDisabled,
                        progressCard, resultCard, progressBar, progressPercent,
                        cardsExist, agentCards, reportCompleteTimeout, watchdogTimers,
                        sendTimers, sims, renderTimers, enableTimers, rendered, errorToast,
                        runGhost, wdGhost >>

\* validateInput (input event): advisory only
validateInput(value) ==
    LET stockCode == Trim(value)
    IN  /\ stockInfo' = IF stockCode = << >> THEN EmptyInfo
                        ELSE IF ~IsValidFormat(stockCode) THEN ErrorInfo
                        ELSE SuccessInfo
        /\ UNCHANGED << socketVars, currentStock, analysisResults, flagVars,
                        analyzeBtnDisabled, progressCard, resultCard, progressBar,
                        progressPercent, cardsExist, agentCards, timerVars, outbox,
                        rendered, errorToast, runGhost, wdGhost >>

(***************************************************************************)
(* Environment of the improved controller                                  *)
(***************************************************************************)
AnalysisCompleteMsgs ==
    { [ type |-> "analysis_complete", results |-> r ] : r \in ResultPayloads }

BattleResultsMsgs ==
    { [ type |-> "battle_results", final_decision |-> d, vote_count |-> v ] :
        d \in Decisions \cup { Absent }, v \in VoteCounts }

AgentProgressMsgs ==
    { [ type |-> "agent_progress", agent |-> a, status |-> st ] :
        a \in AgentIds \cup { "all", "unknown" }, st \in { "started", "completed" } }

PhaseMsgs ==
    { [ type |-> t, phase |-> ph ] :
        t \in { "phase_started", "phase_completed" },
        ph \in { "research", "battle", "report" } }

ValidationMsgs ==
    { [ type |-> "validation_result", valid |-> b, stock_info |-> i ] :
        b \in BOOLEAN, i \in { NullStock, S2330, S2317 } }

\* the messages that carry only a text
PlainMsgs ==
    { [ type |-> t, message |-> x ] :
        t \in { "analysis_started", "battle_started", "error" },
        x \in ErrorTexts \cup { Absent } }

\* simulateAnalysis closures of the improved controller with a pending timer
SimsActive == Cardinality({ r \in 1..MaxRuns : sims[r] # NoSim })

\* a start that would begin a simulation needs a free closure slot
SimSlot(value) ==
    startAccepts(Trim(value)) /\ ~SocketIsOpen => SimsActive < MaxSims

\* the form's submit event; the form is not submitted while its submit
\* control #analyzeBtn is disabled
Submit ==
    /\ ~analyzeBtnDisabled
    /\ \E value \in Inputs : SimSlot(value) /\ startAnalysis(value)
    /\ UNCHANGED nUserOps /\ OnImproved

Retry ==
    /\ \E value \in Inputs : SimSlot(value) /\ retryAnalysis(value)
    /\ UNCHANGED nUserOps /\ OnImproved

Cancel ==
    /\ nUserOps < MaxUserOps
    /\ nUserOps' = nUserOps + 1
    /\ cancelAnalysis
    /\ OnImproved

Validate ==
    /\ nUserOps < MaxUserOps
    /\ nUserOps' = nUserOps + 1
    /\ \E value \in ValidateInputs : validateStockCode(value)
    /\ OnImproved

\* the click on #saveApiBtn
SaveApi ==
    /\ nUserOps < MaxUserOps
    /\ nUserOps' = nUserOps + 1
    /\ \E config \in ApiConfigs : saveApiConfig(config)
    /\ script = "app-improved.js"
    /\ UNCHANGED << script, stockCodeValue, agentPayloads, baseVars >>

InputEvent ==
    /\ \E value \in Inputs : validateInput(value)
    /\ UNCHANGED nUserOps /\ OnImproved

SocketOpen == onopen /\ OnImproved

SocketError == onerror /\ OnImproved

SocketClose == onclose /\ OnImproved

RecvAnalysisComplete == \E m \in AnalysisCompleteMsgs : onmessage(m) /\ OnImproved

RecvBattleResults == \E m \in BattleResultsMsgs : onmessage(m) /\ OnImproved

RecvAgentProgress == \E m \in AgentProgressMsgs : onmessage(m) /\ OnImproved

RecvPhase == \E m \in PhaseMsgs : onmessage(m) /\ OnImproved

RecvValidation == \E m \in ValidationMsgs : onmessage(m) /\ OnImproved

RecvPlain == \E m \in PlainMsgs : onmessage(m) /\ OnImproved

TimerDeferredSend == DeferredSend /\ OnImproved

TimerRender == RenderTimer /\ OnImproved

TimerWatchdog ==
    /\ enableTimers < MaxEnable
    /\ \E t \in watchdogTimers : WatchdogExpire(t)
    /\ OnImproved

TimerEnable == EnableTimer /\ OnImproved

TimerMockValidation == MockValidationTimer /\ OnImproved

TimerSimAgent == \E r \in 1..MaxRuns : SimAgentDone(r) /\ OnImproved

TimerSimBattleStart == \E r \in 1..MaxRuns : SimBattleStart(r) /\ OnImproved

TimerSimBattleReport == \E r \in 1..MaxRuns : SimBattleReport(r) /\ OnImproved

TimerSimBattleDone == \E r \in 1..MaxRuns : SimBattleDone(r) /\ OnImproved

(***************************************************************************)
(* Base controller (web/app.js)                                            *)
(***************************************************************************)
\* this.websocket && this.websocket.readyState === WebSocket.OPEN
b_SocketIsOpen == b_websocket = "ws" /\ b_sock = "OPEN"

\* onopen: a toast only
b_onopen ==
    /\ b_sock = "CONNECTING"
    /\ b_sock' = "OPEN"
    /\ UNCHANGED << b_websocket, b_currentStock, b_domVars, b_timerVars, b_outbox, b_run >>

b_onerror ==
    /\ b_sock \in { "CONNECTING", "OPEN" }
    /\ b_sock' = "ERRORED"
    /\ b_websocket' = "null"
    /\ UNCHANGED << b_currentStock, b_domVars, b_timerVars, b_outbox, b_run >>

b_onclose ==
    /\ b_sock \in { "OPEN", "ERRORED" }
    /\ b_sock' = "CLOSED"
    /\ b_websocket' = "null"
    /\ UNCHANGED << b_currentStock, b_domVars, b_timerVars, b_outbox, b_run >>

\* the two checks at the head of startAnalysis
b_startAccepts(stockCode) == stockCode # << >> /\ IsValidFormat(stockCode)

\* (currentIndex / agents.length) * 100
b_SimProgress(currentIndex) == (currentIndex * Pct(100)) \div totalAgents

\* processNextAgent for a currentIndex below agents.length: classList.add('active')
\* on the card of the current document
b_SimActivate(cards, currentIndex) == [ cards EXCEPT ![currentIndex + 1].active = TRUE ]

\* startAnalysis with the input field holding value
b_startAnalysis(value) ==
    LET stockCode == Trim(value)
        fresh == [ i \in 1..totalAgents |-> NoCard ]
    IN  IF ~b_startAccepts(stockCode)
        THEN /\ b_stockInfo' = ErrorInfo
             /\ UNCHANGED << b_socketVars, b_currentStock, b_progressCard, b_resultCard,
                             b_progressBar, b_cardsExist, b_agentCards, b_timerVars,
                             b_outbox, b_run >>
        ELSE /\ b_run < MaxRuns
             /\ b_run' = b_run + 1
             /\ b_currentStock' = stockCode
             /\ b_progressCard' = "block"
             /\ b_resultCard' = "none"
             /\ b_cardsExist' = TRUE
             /\ b_progressBar' = 0
             /\ IF b_SocketIsOpen
                THEN /\ b_outbox' = Append(b_outbox, OutMsg("start_analysis", stockCode))
                     /\ b_agentCards' = fresh
                     /\ UNCHANGED b_sims
                ELSE \* simulateAnalysis: processNextAgent for currentIndex 0
                     /\ b_agentCards' = b_SimActivate(fresh, 0)
                     /\ b_sims' = [ b_sims EXCEPT ![b_run + 1] =
                                        [ stage |-> "agent", idx |-> 0, gen |-> b_run + 1 ] ]
                     /\ UNCHANGED b_outbox
             /\ UNCHANGED << b_socketVars, b_stockInfo, b_renderTimers, b_mockTimers >>

\* validateStockCode with the input field holding value
b_validateStockCode(value) ==
    LET stockCode == Trim(value)
    IN  /\ IF stockCode = << >>
           THEN /\ b_stockInfo' = ErrorInfo
                /\ UNCHANGED << b_mockTimers, b_outbox >>
           ELSE /\ b_stockInfo' = SuccessInfo
                /\ IF b_SocketIsOpen
                   THEN /\ b_outbox' = Append(b_outbox, OutMsg("validate_stock", stockCode))
                        /\ UNCHANGED b_mockTimers
                   ELSE /\ b_mockTimers' = Append(b_mockTimers, stockCode)
                        /\ UNCHANGED b_outbox
        /\ UNCHANGED << b_socketVars, b_currentStock, b_progressCard, b_resultCard,
                        b_progressBar, b_cardsExist, b_agentCards, b_sims,
                        b_renderTimers, b_run >>

\* validateInput of the base controller (input event): advisory only
b_validateInput(value) ==
    LET stockCode == Trim(value)
    IN  /\ b_stockInfo' = IF stockCode = << >> THEN EmptyInfo
                          ELSE IF ~IsValidFormat(stockCode) THEN ErrorInfo
                          ELSE SuccessInfo
        /\ UNCHANGED << b_socketVars, b_currentStock, b_progressCard, b_resultCard,
                        b_progressBar, b_cardsExist, b_agentCards, b_timerVars,
                        b_outbox, b_run >>

\* getMockStockInfo of the base controller: the same six codes
b_getMockStockInfo(stockCode) == IF stockCode \in mockStocks THEN stockCode ELSE NullStock

\* the 1 s callback of useMockValidation
b_MockValidationTimer ==
    /\ b_mockTimers # << >>
    /\ b_mockTimers' = Tail(b_mockTimers)
    /\ b_stockInfo' = IF b_getMockStockInfo(Head(b_mockTimers)) # NullStock
                      THEN StockInfo(Head(b_mockTimers),
                                     b_getMockStockInfo(Head(b_mockTimers)))
                      ELSE ErrorInfo
    /\ UNCHANGED << b_socketVars, b_currentStock, b_progressCard, b_resultCard,
                    b_progressBar, b_cardsExist, b_agentCards, b_sims, b_renderTimers,
                    b_outbox, b_run >>

\* the 2-4 s callback of processNextAgent for simulation r: it completes the
\* card element it captured, then processNextAgent runs again and, past the
\* last agent, calls showAnalysisResults
b_SimAgentDone(r) ==
    LET sim == b_sims[r]
        done == IF sim.gen = b_run
                THEN [ b_agentCards EXCEPT ![sim.idx + 1] =
                                               [ active |-> FALSE, completed |-> TRUE ] ]
                ELSE b_agentCards
        currentIndex == sim.idx + 1
    IN  /\ sim.stage = "agent"
        /\ IF currentIndex >= totalAgents
           THEN /\ b_agentCards' = done
                /\ b_progressBar' = Pct(100)
                /\ b_renderTimers' = b_renderTimers + 1
                /\ b_sims' = [ b_sims EXCEPT ![r] = NoSim ]
           ELSE /\ b_agentCards' = b_SimActivate(done, currentIndex)
                /\ b_progressBar' = b_SimProgress(currentIndex)
                /\ b_sims' = [ b_sims EXCEPT ![r] = [ stage |-> "agent",
                                                      idx |-> currentIndex,
                                                      gen |-> b_run ] ]
                /\ UNCHANGED b_renderTimers
        /\ UNCHANGED << b_socketVars, b_currentStock, b_progressCard, b_resultCard,
                        b_cardsExist, b_stockInfo, b_mockTimers, b_outbox, b_run >>

\* the 1 s callback of showAnalysisResults
b_RenderTimer ==
    /\ b_renderTimers > 0
    /\ b_renderTimers' = b_renderTimers - 1
    /\ b_progressCard' = "none"
    /\ b_resultCard' = "block"
    /\ UNCHANGED << b_socketVars, b_currentStock, b_progressBar, b_cardsExist,
                    b_agentCards, b_stockInfo, b_sims, b_mockTimers, b_outbox, b_run >>

(***************************************************************************)
(* Environment of the base controller                                      *)
(***************************************************************************)
b_SimsActive == Cardinality({ r \in 1..MaxRuns : b_sims[r] # NoSim })

b_SimSlot(value) ==
    b_startAccepts(Trim(value)) /\ ~b_SocketIsOpen => b_SimsActive < MaxSims

\* the form's submit event; the base controller never disables the control
b_Submit ==
    /\ \E value \in Inputs : b_SimSlot(value) /\ b_startAnalysis(value)
    /\ UNCHANGED nUserOps /\ OnBase

b_Validate ==
    /\ nUserOps < MaxUserOps
    /\ nUserOps' = nUserOps + 1
    /\ \E value \in ValidateInputs : b_validateStockCode(value)
    /\ OnBase

b_SocketOpen == b_onopen /\ UNCHANGED nUserOps /\ OnBase

b_SocketError == b_onerror /\ UNCHANGED nUserOps /\ OnBase

b_SocketClose == b_onclose /\ UNCHANGED nUserOps /\ OnBase

b_TimerMockValidation == b_MockValidationTimer /\ UNCHANGED nUserOps /\ OnBase

b_TimerSimAgent ==
    /\ \E r \in 1..MaxRuns : b_SimAgentDone(r)
    /\ UNCHANGED nUserOps /\ OnBase

b_TimerRender == b_RenderTimer /\ UNCHANGED nUserOps /\ OnBase

(***************************************************************************)
(* The completion barrier: analysis runs, live and simulated, with the     *)
(* two completion messages                                                 *)
(***************************************************************************)
NextBarrier ==
    \/ Submit
    \/ Retry
    \/ SocketOpen
    \/ SocketError
    \/ SocketClose
    \/ RecvAnalysisComplete
    \/ RecvBattleResults
    \/ TimerRender
    \/ TimerSimAgent
    \/ TimerSimBattleStart
    \/ TimerSimBattleReport
    \/ TimerSimBattleDone

SpecBarrier == Init /\ [][NextBarrier]_vars

\* C1: within one analysis run, whatever the order and the repetition of the
\* inbound analysis_complete and battle_results messages, showAnalysisResults
\* takes its display effect at most once, and exactly once as soon as at
\* least one message of each kind has been handled.
C1_DisplayedExactlyOnce ==
    run >= 1 =>
        /\ showCount <= 1
        /\ (nComplete >= 1 /\ nBattle >= 1 => showCount = 1)

\* C2: in every reachable state, resultsDisplayed = true implies
\* analysisCompleted = true and isBattleComplete = true.
C2_DisplayedOnlyWhenBothComplete ==
    resultsDisplayed => analysisCompleted /\ isBattleComplete

\* results displayed in a live run after both completion messages
C2_Witness ==
    /\ resultsDisplayed
    /\ showCount = 1
    /\ nComplete >= 1
    /\ nBattle >= 1
    /\ SimsActive = 0

\* the session state a run with one analysis_complete (results R) and one
\* battle_results (final_decision D, vote_count V) is to end in
ExpectedResults == [ lastComplete EXCEPT !.battle = lastBattle ]

\* a run that received exactly one analysis_complete and one battle_results
\* carrying a final_decision, and no simulation callback is pending
OneOfEach ==
    /\ run >= 1
    /\ nComplete = 1
    /\ nBattle = 1
    /\ ~seenMalformed
    /\ SimsActive = 0

\* C3: a run that receives one analysis_complete (results R) and one
\* battle_results (D, V) ends, in both arrival orders, with the same flags
\* and with analysisResults holding R's entries together with the battle
\* entry {D, V}; the rendering shows that battle entry.
C3_SameStateInBothOrders ==
    OneOfEach =>
        /\ resultsDisplayed
        /\ analysisCompleted
        /\ isBattleComplete
        /\ ~awaitingBattleCompletion
        /\ ~pendingSuccessToast
        /\ analysisResults = ExpectedResults

(***************************************************************************)
(* Agent progress: analysis runs with agent_progress messages              *)
(***************************************************************************)
NextAgents ==
    \/ Submit
    \/ Retry
    \/ SocketOpen
    \/ RecvAgentProgress
    \/ TimerDeferredSend

SpecAgents == Init /\ [][NextAgents]_vars

\* waiting / started / completed as derived from the card's markers
AgentRank(card) == IF card.completed THEN 2 ELSE IF card.active THEN 1 ELSE 0

\* C4: within one analysis run the status of each of the six agents only
\* moves forward waiting -> started -> completed: no step that stays in the
\* run lowers an agent's status.
C4_AgentStatusMonotonic ==
    [][ run' = run =>
          \A a \in AgentIds : AgentRank(agentCards'[a]) >= AgentRank(agentCards[a]) ]_vars

\* the number of agent cards carrying the completed marker
CompletedCount(cards) == Cardinality({ a \in AgentIds : cards[a].completed })

\* C10: immediately after handling an agent_progress message with status
\* completed for one of the six agents, the aggregate progress percentage
\* equals (number of agents currently completed) / 6 * 100.
C10_ProgressAfterCompleted ==
    [][ \A a \in AgentIds :
          cardsExist /\ onmessage([ type |-> "agent_progress", agent |-> a,
                                    status |-> "completed" ])
          => /\ agentCards'[a].completed
             /\ 6 * progressBar' = CompletedCount(agentCards') * Pct(100) ]_vars

\* a live run in which all six agents were reported completed
C10_Witness ==
    /\ run >= 1
    /\ SocketIsOpen
    /\ SimsActive = 0
    /\ CompletedCount(agentCards) = 6
    /\ progressBar = Pct(100)
    /\ progressPercent = 100

(***************************************************************************)
(* The report watchdog: live runs with phase messages and analysis_complete *)
(***************************************************************************)
NextWatchdog ==
    \/ Submit
    \/ SocketOpen
    \/ RecvPhase
    \/ RecvAnalysisComplete
    \/ TimerDeferredSend
    \/ TimerWatchdog
    \/ TimerEnable

SpecWatchdog == Init /\ [][NextWatchdog]_vars

\* C5: after phase_completed(report), also when it is received more than
\* once, one watchdog is pending and no notice has been shown; when it
\* expires without analysis_complete the degraded-mode notice has been shown
\* exactly once; when analysis_complete is handled first the watchdog is
\* cancelled and the notice is not shown.
C5_WatchdogNoticeOnce ==
    /\ Cardinality(watchdogTimers) <= 1
    /\ noticeCount <= 1
    /\ watchdogEpisode = "armed" =>
           watchdogTimers = { reportCompleteTimeout } /\ noticeCount = 0
    /\ watchdogEpisode = "fired" => watchdogTimers = {} /\ noticeCount = 1
    /\ watchdogEpisode = "cancelled" => watchdogTimers = {} /\ noticeCount = 0
    /\ watchdogEpisode = "none" => watchdogTimers = {} /\ noticeCount = 0

\* the watchdog expired in a run that received no analysis_complete
C5_Witness ==
    /\ run >= 1
    /\ nComplete = 0
    /\ watchdogEpisode = "fired"
    /\ noticeCount = 1

(***************************************************************************)
(* Cancellation: runs, socket events and the cancel control                *)
(***************************************************************************)
NextCancel ==
    \/ Submit
    \/ Cancel
    \/ SocketOpen
    \/ SocketError
    \/ SocketClose
    \/ RecvPlain
    \/ TimerDeferredSend

SpecCancel == Init /\ [][NextCancel]_vars

\* C6: from every state, a call of cancelAnalysis leaves the analysis control
\* enabled and the progress panel hidden in the same step, whether the
\* socket is open or not, and sends a cancel_analysis message if and only if
\* the socket is open.
C6_CancelAlwaysResets ==
    [][ cancelAnalysis =>
          /\ analyzeBtnDisabled' = FALSE
          /\ progressCard' = "none"
          /\ SocketIsOpen =>
                 outbox' = Append(outbox, OutMsg("cancel_analysis", currentStock))
          /\ ~SocketIsOpen => outbox' = outbox ]_vars

\* a run cancelled after its socket was lost: nothing sent, the page reset
C6_Witness ==
    /\ run >= 1
    /\ nUserOps >= 1
    /\ ~SocketIsOpen
    /\ ~analysisCompleted
    /\ ~analyzeBtnDisabled
    /\ progressCard = "none"
    /\ \A i \in 1..Len(outbox) : outbox[i].type # "cancel_analysis"

(***************************************************************************)
(* Live runs under failure: socket loss, error messages, a missing         *)
(* analysis_complete.  Every pending timer callback eventually runs, and   *)
(* the close event follows an error event; nothing obliges the server to   *)
(* send or the user to act.                                                *)
(***************************************************************************)
NextLive ==
    \/ Submit
    \/ SocketOpen
    \/ SocketError
    \/ SocketClose
    \/ RecvPlain
    \/ RecvPhase
    \/ RecvAnalysisComplete
    \/ TimerDeferredSend
    \/ TimerWatchdog
    \/ TimerEnable

SpecLive ==
    /\ Init
    /\ [][NextLive]_vars
    /\ WF_vars(TimerDeferredSend)
    /\ WF_vars(TimerWatchdog)
    /\ WF_vars(TimerEnable)
    /\ WF_vars(sock = "ERRORED" /\ SocketClose)

\* a run started over the socket whose analysis control is still disabled
LiveRunPending ==
    /\ run >= 1
    /\ analyzeBtnDisabled
    /\ sims[run] = NoSim

\* the run has lost its socket, or its report phase has completed without
\* analysis_complete so far
FailureSeen ==
    /\ LiveRunPending
    /\ \/ sock \in { "ERRORED", "CLOSED" }
       \/ reportCompleteTimeout \in watchdogTimers

\* C7: after startAnalysis has disabled the analysis control, every failure
\* path eventually leads, without a further user action, to a state where
\* results are displayed or the analysis control is enabled again.
C7_FailureResolves ==
    FailureSeen ~> (resultsDisplayed \/ ~analyzeBtnDisabled)

(***************************************************************************)
(* The request gates of both controllers: submit and validate with every   *)
(* input value, sockets open or not                                        *)
(***************************************************************************)
NextGate ==
    \/ Submit
    \/ Validate
    \/ SocketOpen
    \/ SocketError
    \/ TimerDeferredSend
    \/ TimerMockValidation
    \/ b_Submit
    \/ b_Validate
    \/ b_SocketOpen
    \/ b_SocketError
    \/ b_SocketClose
    \/ b_TimerMockValidation

SpecGate == Init /\ [][NextGate]_vars

\* a string of 4 to 6 decimal digits
FourToSixDigits(s) == Len(s) \in 4..6 /\ \A i \in 1..Len(s) : s[i] \in Digit

\* C8: in both controllers, startAnalysis with an input whose trimmed value
\* is empty or is not 4 to 6 digits sends nothing, starts no simulated run
\* and leaves currentStock, the progress records and the analysis control
\* unchanged; only the validation error is shown.
C8_StartAnalysisHardGate ==
    [][ \A value \in Inputs :
          ~FourToSixDigits(Trim(value)) =>
              /\ startAnalysis(value) =>
                     /\ stockInfo' = ErrorInfo
                     /\ UNCHANGED << outbox, sendTimers, sims, currentStock, run,
                                     cardsExist, agentCards, progressBar,
                                     progressPercent, progressCard,
                                     analyzeBtnDisabled >>
              /\ b_startAnalysis(value) =>
                     /\ b_stockInfo' = ErrorInfo
                     /\ UNCHANGED << b_outbox, b_sims, b_currentStock, b_run,
                                     b_cardsExist, b_agentCards, b_progressBar,
                                     b_progressCard >> ]_vars

\* the base controller, its socket open, has rejected a start: the error is
\* shown and nothing was sent or started
C8_Witness ==
    /\ script = "app.js"
    /\ nUserOps = 0
    /\ b_stockInfo = ErrorInfo
    /\ b_run = 0
    /\ b_SocketIsOpen
    /\ b_currentStock = NullStock
    /\ ~b_cardsExist
    /\ b_outbox = << >>

\* C9: in both controllers, validateStockCode with an input that is not 4 to
\* 6 digits sends no validate_stock message and starts no offline table
\* lookup.
C9_ValidateHardGate ==
    [][ \A value \in Inputs :
          ~FourToSixDigits(Trim(value)) =>
              /\ validateStockCode(value) => UNCHANGED << outbox, mockTimers >>
              /\ b_validateStockCode(value) => UNCHANGED << b_outbox, b_mockTimers >> ]_vars

(***************************************************************************)
(* Inbound error messages in live runs, before and after completion        *)
(***************************************************************************)
NextError ==
    \/ Submit
    \/ SocketOpen
    \/ RecvPlain
    \/ RecvAnalysisComplete
    \/ RecvBattleResults

SpecError == Init /\ [][NextError]_vars

\* the inbound error messages
ErrorMsgs == { m \in PlainMsgs : m.type = "error" }

\* C11: handling an inbound error message in any state shows the message's
\* text (the default text when it has none), leaves the analysis control
\* enabled and changes none of analysisCompleted, isBattleComplete,
\* resultsDisplayed and analysisResults.
C11_ErrorKeepsRunState ==
    [][ \A m \in ErrorMsgs :
          onmessage(m) =>
              /\ errorToast' = IF m.message = Absent THEN DefaultError ELSE m.message
              /\ analyzeBtnDisabled' = FALSE
              /\ UNCHANGED << analysisCompleted, isBattleComplete, resultsDisplayed,
                              analysisResults >> ]_vars

\* an error message handled in a live run that has stored a battle entry and
\* waits for analysis_complete: only the error re-enabled the control
C11_Witness ==
    /\ run >= 1
    /\ SimsActive = 0
    /\ nComplete = 0
    /\ isBattleComplete
    /\ ~analysisResults.isNull
    /\ errorToast = "E1"
    /\ ~analyzeBtnDisabled

\* the status values that present the session as connected to the server
Online(status) == status \in { "connected", "analyzing" }

\* the socket has had its error or close event
SocketLost == sock \in { "ERRORED", "CLOSED" }

\* C12: the session opens exactly one WebSocket: connectionStatus is
\* connecting only before the first socket event and is never re-entered,
\* it becomes connected only on the socket's open event and disconnected on
\* its error or close event, and after an error or close the handle is
\* cleared and the socket is never opened again.
C12_SingleConnectionLifecycle ==
    [][ /\ connectionStatus' = "connecting" => connectionStatus = "connecting"
        /\ connectionStatus = "connecting" => sock = "CONNECTING"
        /\ ~Online(connectionStatus) /\ Online(connectionStatus')
               => sock = "CONNECTING" /\ sock' = "OPEN"
        /\ sock' # sock /\ sock' \in { "ERRORED", "CLOSED" }
               => connectionStatus' = "disconnected" /\ websocket' = "null"
        /\ SocketLost => SocketLost' /\ websocket' = "null" ]_vars

(***************************************************************************)
(* Simulated run: one analyze action and the timers of the simulation      *)
(***************************************************************************)
NextSim ==
    \/ Submit \/ InputEvent
    \/ SocketOpen \/ SocketError \/ SocketClose
    \/ TimerSimAgent \/ TimerSimBattleStart \/ TimerSimBattleReport
    \/ TimerSimBattleDone \/ TimerRender

SpecSim == Init /\ [][NextSim]_vars

\* the agents of the fixed order that come before position i
Earlier(i) == { agents[j] : j \in 1..(i - 1) }

SimRunning == \E r \in 1..MaxRuns : sims[r] # NoSim

\* C13: a single simulated run starts the six agents one at a time in the
\* fixed order, each only after all earlier ones completed; results are
\* displayed only after all six completed; no step of the run sends a message
C13_SimulationSequential ==
    /\ [](run <= 1 =>
            /\ activeAgents(agentCards) <= 1
            /\ \A i \in 1..totalAgents :
                   agentCards[agents[i]].active \/ agentCards[agents[i]].completed
                       => \A a \in Earlier(i) :
                              agentCards[a].completed /\ ~agentCards[a].active
            /\ resultsDisplayed \/ resultCard = "block"
                   => completedAgents(agentCards) = totalAgents)
    /\ [][ SimRunning \/ SimRunning' => outbox' = outbox ]_vars

C13_Witness ==
    /\ run = 1 /\ outbox = << >> /\ ~SimRunning
    /\ completedAgents(agentCards) = totalAgents
    /\ resultsDisplayed /\ resultCard = "block" /\ rendered.kind = "mock"

(***************************************************************************)
(* Offline validation: the validate button of both controllers             *)
(***************************************************************************)
NextMock ==
    \/ Validate \/ SocketOpen \/ SocketError \/ SocketClose \/ TimerMockValidation
    \/ b_Validate \/ b_SocketOpen \/ b_SocketError \/ b_SocketClose
    \/ b_TimerMockValidation

SpecMock == Init /\ [][NextMock]_vars

\* the six codes of the built-in table
BuiltInCodes ==
    { << "2", "3", "3", "0" >>, << "2", "3", "1", "7" >>, << "2", "4", "5", "4" >>,
      << "3", "0", "0", "8" >>, << "2", "8", "8", "1" >>, << "2", "8", "8", "2" >> }

\* what the validation area shows once the offline validation of c resolved
MockOutcome(c) ==
    IF c \in BuiltInCodes THEN [ kind |-> "stock", code |-> c, name |-> c ]
    ELSE [ kind |-> "error", code |-> NullStock, name |-> NullStock ]

C15_ExactlyOnePath ==
    [][ /\ run' = run + 1 /\ SocketIsOpen
              => sendTimers' = Append(sendTimers, currentStock') /\ sims' = sims
        /\ run' = run + 1 /\ ~SocketIsOpen
              => /\ sims'[run'] # NoSim
                 /\ outbox' = outbox /\ sendTimers' = sendTimers
        /\ TimerDeferredSend
              => /\ outbox' = Append(outbox, OutMsg("start_analysis", Head(sendTimers)))
                 /\ sims' = sims ]_vars

(***************************************************************************)
(* The format check on every text of a bounded alphabet                    *)
(***************************************************************************)
MaxLen == 7

Alphabet == { "2", "A", " " }

FormatInputs == UNION { [ 1..n -> Alphabet ] : n \in 0..MaxLen }

InitFormat ==
    /\ script \in { "app-improved.js", "app.js" }
    /\ stockCodeValue \in FormatInputs
    /\ agentPayloads = [ a \in AgentIds |-> Text(60) ]
    /\ InitImproved
    /\ InitBase

\* the input event and the submit event with the field holding the text
FieldInput == validateInput(stockCodeValue) /\ UNCHANGED nUserOps /\ OnImproved

FieldSubmit ==
    /\ ~analyzeBtnDisabled
    /\ startAnalysis(stockCodeValue)
    /\ UNCHANGED nUserOps /\ OnImproved

b_FieldInput == b_validateInput(stockCodeValue) /\ UNCHANGED nUserOps /\ OnBase

NextFormat == FieldInput \/ FieldSubmit \/ b_FieldInput

SpecFormat == InitFormat /\ [][NextFormat]_vars

\* exactly 4, 5 or 6 decimal digits and nothing else
DecimalCode(c) == \E n \in { 4, 5, 6 } : c \in [ 1..n -> Digit ]

\* C16: the format check accepts c iff c is 4, 5 or 6 decimal digits, for every
\* text over the alphabet; validateInput of both controllers and startAnalysis
\* apply it to the trimmed field text
C16_FormatCheck ==
    /\ [](IsValidFormat(stockCodeValue) <=> DecimalCode(stockCodeValue))
    /\ [][ LET c == Trim(stockCodeValue)
           IN  /\ FieldInput /\ c # << >>
                     => (stockInfo'.kind = "success" <=> DecimalCode(c))
               /\ FieldInput /\ c # << >>
                     => (stockInfo'.kind = "error" <=> ~DecimalCode(c))
               /\ FieldSubmit => (run' = run + 1 <=> DecimalCode(c))
               /\ b_FieldInput /\ c # << >>
                     => (b_stockInfo'.kind = "success" <=> DecimalCode(c))
               /\ b_FieldInput /\ c # << >>
                     => (b_stockInfo'.kind = "error" <=> ~DecimalCode(c)) ]_vars

C16_Witness ==
    /\ stockCodeValue = << " ", "2", "2", "2", "2", "2", " " >>
    /\ stockInfo.kind = "success" /\ run = 1

(***************************************************************************)
(* Rendering of real results over the shapes of the agent payloads         *)
(***************************************************************************)
\* payload shapes: texts of 10 and of 60 characters
PayloadShapes ==
    { Missing, Primitive, Text(10), Text(60),
      Object(10, 0, 0, 0), Object(60, 0, 0, 0),
      Object(60, 60, 0, 0), Object(60, 10, 0, 0), Object(60, 10, 60, 0),
      Object(60, 0, 60, 0), Object(60, 0, 0, 60),
      Array(10, TRUE), Array(60, FALSE) }

\* research objects: every mix of a good text, no entry and a short text, and
\* every shape for one agent next to five good texts
ResearchObjects ==
    [ AgentIds -> { Text(60), Missing, Text(10) } ]
        \cup { [ [ b \in AgentIds |-> Text(60) ] EXCEPT ![ids[1]] = ids[2] ] :
                   ids \in AgentIds \X PayloadShapes }

InitPanels ==
    /\ script = "app-improved.js"
    /\ stockCodeValue = << >>
    /\ agentPayloads \in ResearchObjects
    /\ InitImproved
    /\ InitBase

\* the messages that end a run, and the rendering they lead to
NextPanels == SocketOpen \/ RecvAnalysisComplete \/ RecvBattleResults \/ TimerRender

SpecPanels == InitPanels /\ [][NextPanels]_vars

\* missing, or neither a string nor an object with one of the three fields
\* (the object's JSON text may be short or long), or a text that is too short
Unusable(payload) ==
    \/ payload.kind \in { "missing", "number", "array" }
    \/ payload.kind = "object" /\ payload.agent_output = 0
           /\ payload.raw_output = 0 /\ payload.tool_data = 0
    \/ payload.kind = "string" /\ payload.len = 10

\* a long text, directly or as agent_output
Usable(payload) ==
    \/ payload.kind = "string" /\ payload.len = 60
    \/ payload.kind = "object" /\ payload.agent_output = 60

\* C17: once real results are rendered, every agent with an unusable payload has
\* the placeholder in its panel, every agent with a usable payload has its text
\* there, whatever the other five payloads are, and the charts are created
C17_PanelsIndependent ==
    rendered.kind = "real" =>
        /\ \A a \in AgentIds :
               /\ Unusable(agentPayloads[a]) => rendered.panels[a].kind = "placeholder"
               /\ Usable(agentPayloads[a])
                      => rendered.panels[a] \in { Panel("content", "text"),
                                                  Panel("content", "agent_output") }
        /\ rendered.charts

(***************************************************************************)
(* Cancelling a run                                                        *)
(***************************************************************************)
NextAfterCancel ==
    \/ Submit \/ Cancel
    \/ SocketOpen \/ SocketError
    \/ RecvBattleResults \/ TimerDeferredSend
    \/ TimerSimAgent \/ TimerSimBattleStart \/ TimerSimBattleReport
    \/ TimerSimBattleDone \/ TimerRender

SpecAfterCancel == Init /\ [][NextAfterCancel]_vars

\* cancelAnalysis was called in the current run
Cancelled == run >= 1 /\ cancelledRun = run

\* C18: from a cancel until the next startAnalysis the progress panel is
\* hidden, and no step changes an agent record or displays results
C18_CancelledRunIsSilent ==
    /\ [](Cancelled => progressCard = "none")
    /\ [][ Cancelled /\ Cancelled'
              => /\ agentCards' = agentCards
                 /\ resultsDisplayed' = resultsDisplayed
                 /\ resultCard' = resultCard
                 /\ rendered' = rendered ]_vars

\* C19: what the rendering at the end of a run shows was received after that
\* run's startAnalysis: real research only if this run received it, and a
\* battle entry other than the canned one only if this run received one
C19_ResultsFromThisRun ==
    [][ TimerRender /\ showCount >= 1
           => /\ rendered'.kind = "real"
                    => ~lastComplete.isNull /\ rendered'.research = lastComplete.research
              /\ rendered'.battle.present /\ rendered'.battle # MockBattle
                    => lastBattle.present \/ lastComplete.battle.present ]_vars

\* a run has ended with its results on the page
RunDisplayed == run >= 1 /\ resultsDisplayed /\ resultCard = "block" /\ renderTimers = 0

\* C20: when a run has ended with its results displayed, the analysis control
\* is enabled again (live path and simulated path)
C20_ControlEnabledAfterRun ==
    RunDisplayed /\ enableTimers = 0 => ~analyzeBtnDisabled

(***************************************************************************)
(* The report watchdog across runs                                         *)
(***************************************************************************)
NextWatchdogRuns == NextWatchdog \/ Cancel

SpecWatchdogRuns == Init /\ [][NextWatchdogRuns]_vars

\* C21: a watchdog armed during a run shows its notice, and the control is
\* re-enabled by it, only in that run and only while it has not been cancelled
C21_WatchdogConfinedToRun ==
    [][ (TimerWatchdog \/ TimerEnable) /\ armedRun >= 1
            => armedRun = run /\ ~Cancelled ]_vars

\* C22: connectionStatus is one of the four values, and it is connected or
\* analyzing only while the session holds an open WebSocket
C22_StatusMatchesSocket ==
    /\ connectionStatus \in { "disconnected", "connecting", "connected", "analyzing" }
    /\ connectionStatus \in { "connected", "analyzing" }
           => sock = "OPEN" /\ websocket = "ws"

\* C23: once analysis_complete and a battle_results message without a usable
\* final_decision have both been handled in a run, in either order, the
\* results are displayed
C23_MalformedBattleDisplays ==
    run >= 1 /\ nComplete >= 1 /\ nBattle >= 1 /\ seenMalformed => resultsDisplayed

NextProgress ==
    \/ Submit
    \/ SocketOpen
    \/ RecvAgentProgress
    \/ RecvPlain

SpecProgress == Init /\ [][NextProgress]_vars

SubmitAnew ==
    /\ ~analyzeBtnDisabled
    /\ \E value \in Inputs : startAnalysis(value)
    /\ UNCHANGED nUserOps /\ OnImproved

\* the retry control, also while the timers of an earlier simulation are pending
RetryAnew ==
    /\ \E value \in Inputs : retryAnalysis(value)
    /\ UNCHANGED nUserOps /\ OnImproved

NextOverlap ==
    \/ SubmitAnew \/ RetryAnew \/ Cancel
    \/ SocketError \/ SocketClose
    \/ TimerSimAgent \/ TimerSimBattleStart \/ TimerSimBattleReport
    \/ TimerSimBattleDone \/ TimerRender

SpecOverlap == Init /\ [][NextOverlap]_vars

\* C25: in simulated runs, also when a run is started while the timers of a
\* cancelled or retried one are pending, at most one agent is active at a
\* time and the results are displayed only when all six agents of the
\* current run are completed
C25_OverlappingSimulations ==
    /\ [](activeAgents(agentCards) <= 1)
    /\ [][ ~resultsDisplayed /\ resultsDisplayed'
               => completedAgents(agentCards') = totalAgents ]_vars


(***************************************************************************)
(* Validation results and the code they are shown under                    *)
(***************************************************************************)
NextValidation ==
    \/ Validate
    \/ Submit
    \/ SocketOpen
    \/ RecvValidation
    \/ TimerDeferredSend

SpecValidation == Init /\ [][NextValidation]_vars

\* a validate_stock request for stockCode has been sent
Requested(stockCode) ==
    \E i \in 1..Len(outbox) : outbox[i] = OutMsg("validate_stock", stockCode)

NextConfig ==
    \/ SaveApi
    \/ Submit
    \/ SocketOpen \/ SocketError \/ SocketClose
    \/ TimerDeferredSend

SpecConfig == Init /\ [][NextConfig]_vars

\* the positions of the configure_api messages sent so far
ConfigSent == { i \in 1..Len(outbox) : outbox[i].type = "configure_api" }

\* a start_analysis message is sent in this step
StartSent ==
    Len(outbox') = Len(outbox) + 1 /\ outbox'[Len(outbox')].type = "start_analysis"

\* C27: a live analyze action sends configure_api with the current
\* configuration before its start_analysis is sent, and whenever a
\* start_analysis is sent the most recent configure_api sent before it
\* carries the configuration held at that moment, also one that was saved
\* while the socket was not open
C27_ConfigBeforeStart ==
    /\ [][ sendTimers' # sendTimers /\ Len(sendTimers') > Len(sendTimers)
               => outbox' = Append(outbox, ConfigMsg(apiConfig)) ]_vars
    /\ [][ StartSent
               => /\ ConfigSent # {}
                  /\ \E i \in ConfigSent :
                         /\ outbox[i].config = apiConfig
                         /\ \A j \in ConfigSent : j <= i ]_vars

\* a configuration saved while the socket was not open, delivered by the
\* configure_api of the analyze action, and the start_analysis after it
C27_Witness ==
    /\ apiConfig # DefaultConfig
    /\ \E c \in Inputs :
           outbox = << ConfigMsg(apiConfig), OutMsg("start_analysis", Trim(c)) >>

====
